---- MODULE Spec2Model ----
(***************************************************************************)
(* A model of aws-sg-updater (main.go): the reconciliation of one ingress  *)
(* entry, keyed by its description, in the tcp 0-65535 rule of a security  *)
(* group.  The remote group is state; every remote call of                 *)
(* syncSecurityGroupRule is one step, so another actor can act between the *)
(* describe, the revoke and the authorize of a run.                        *)
(***************************************************************************)
EXTENDS Integers, Sequences, FiniteSets, TLC

\* ---------------------------------------------------------------- bounds
\* The most entries the tcp 0-65535 rule holds in an initial state.
MaxRanges == 2
\* The number of changes another actor makes to a group.
MaxOthers == 1
\* The number of successive invocations of reconcile against one group.
MaxRuns == 2

\* ------------------------------------------------------------- the data

\* main.go:131  targetCidrIP := publicIP + "/32"
TargetCidr(ip) == ip \o "/32"

\* The public addresses getPublicIP may discover.
PublicIPs == {"5.6.7.8", "1.2.3.4"}

\* The CIDRs that occur in a group: the targets and a third one.
Cidrs == {TargetCidr(ip) : ip \in PublicIPs} \cup {"9.9.9.9/32"}

\* The description under management (--my-name) and one of another owner.
Descriptions == {"home", "office"}

\* types.IpRange
IpRange(cidr, desc) == [CidrIp |-> cidr, Description |-> desc]

\* types.IpPermission
IpPermission(proto, from, to, ranges) ==
    [IpProtocol |-> proto, FromPort |-> from, ToPort |-> to, IpRanges |-> ranges]

\* IsManagedShape with a fault (C7): the upper port is not looked at.
IsManagedShapeAnyToPort(p) ==
    p.IpProtocol = "tcp" /\ p.FromPort = 0

\* main.go:160  the rule shape under management
IsManagedShape(p) ==
    p.IpProtocol = "tcp" /\ p.FromPort = 0 /\ p.ToPort = 65535

SameShape(p, q) ==
    /\ p.IpProtocol = q.IpProtocol
    /\ p.FromPort = q.FromPort
    /\ p.ToPort = q.ToPort

\* ----------------------------------------------- the scan (main.go:159-198)
\* ScanRanges with a fault (C1): the correct entry no longer clears ruleNeedsAdding.
RECURSIVE ScanRangesKeepsAdding(_, _, _, _, _)
ScanRangesKeepsAdding(ranges, i, acc, description, targetCidrIP) ==
    IF i > Len(ranges) THEN acc
    ELSE LET ipRange == ranges[i] IN
         IF ipRange.Description = description
         THEN IF ipRange.CidrIp = targetCidrIP
              THEN [acc EXCEPT !.ruleNeedsUpdate = FALSE,
                               !.rangesToKeep = Append(@, ipRange)]
              ELSE ScanRangesKeepsAdding(ranges, i + 1,
                       [acc EXCEPT !.ruleNeedsUpdate = TRUE,
                                   !.rangesToRevoke = Append(@, ipRange)],
                       description, targetCidrIP)
         ELSE ScanRangesKeepsAdding(ranges, i + 1,
                  [acc EXCEPT !.rangesToKeep = Append(@, ipRange)],
                  description, targetCidrIP)

\* ScanRanges with a fault (C13): the correct entry does not end the loop.
RECURSIVE ScanRangesNoBreak(_, _, _, _, _)
ScanRangesNoBreak(ranges, i, acc, description, targetCidrIP) ==
    IF i > Len(ranges) THEN acc
    ELSE LET ipRange == ranges[i] IN
         IF ipRange.Description = description
         THEN IF ipRange.CidrIp = targetCidrIP
              THEN ScanRangesNoBreak(ranges, i + 1,
                       [acc EXCEPT !.ruleNeedsAdding = FALSE,
                                   !.ruleNeedsUpdate = FALSE,
                                   !.rangesToKeep = Append(@, ipRange)],
                       description, targetCidrIP)
              ELSE ScanRangesNoBreak(ranges, i + 1,
                       [acc EXCEPT !.ruleNeedsUpdate = TRUE,
                                   !.rangesToRevoke = Append(@, ipRange)],
                       description, targetCidrIP)
         ELSE ScanRangesNoBreak(ranges, i + 1,
                  [acc EXCEPT !.rangesToKeep = Append(@, ipRange)],
                  description, targetCidrIP)

\* ScanRanges with a fault (C12): the correct entry clears the stale entries
\* marked before it.
RECURSIVE ScanRangesForgetsStale(_, _, _, _, _)
ScanRangesForgetsStale(ranges, i, acc, description, targetCidrIP) ==
    IF i > Len(ranges) THEN acc
    ELSE LET ipRange == ranges[i] IN
         IF ipRange.Description = description
         THEN IF ipRange.CidrIp = targetCidrIP
              THEN [acc EXCEPT !.ruleNeedsAdding = FALSE,
                               !.ruleNeedsUpdate = FALSE,
                               !.rangesToRevoke = <<>>,
                               !.rangesToKeep = Append(@, ipRange)]
              ELSE ScanRangesForgetsStale(ranges, i + 1,
                       [acc EXCEPT !.ruleNeedsUpdate = TRUE,
                                   !.rangesToRevoke = Append(@, ipRange)],
                       description, targetCidrIP)
         ELSE ScanRangesForgetsStale(ranges, i + 1,
                  [acc EXCEPT !.rangesToKeep = Append(@, ipRange)],
                  description, targetCidrIP)

\* main.go:164-180  the loop over one rule's entries, from entry i on;
\* acc holds ruleNeedsAdding, ruleNeedsUpdate, rangesToRevoke, rangesToKeep.
\* The entry with the description and the target CIDR ends the loop (break).
RECURSIVE ScanRanges(_, _, _, _, _)
ScanRanges(ranges, i, acc, description, targetCidrIP) ==
    IF i > Len(ranges) THEN acc
    ELSE LET ipRange == ranges[i] IN
         IF ipRange.Description = description
         THEN IF ipRange.CidrIp = targetCidrIP
              THEN [acc EXCEPT !.ruleNeedsAdding = FALSE,
                               !.ruleNeedsUpdate = FALSE,
                               !.rangesToKeep = Append(@, ipRange)]
              ELSE ScanRanges(ranges, i + 1,
                       [acc EXCEPT !.ruleNeedsUpdate = TRUE,
                                   !.rangesToRevoke = Append(@, ipRange)],
                       description, targetCidrIP)
         ELSE ScanRanges(ranges, i + 1,
                  [acc EXCEPT !.rangesToKeep = Append(@, ipRange)],
                  description, targetCidrIP)

\* ScanPermissions with a fault (C4): the stale entries found are never
\* made the rule to revoke.
RECURSIVE ScanPermissionsDropsRevoke(_, _, _, _, _)
ScanPermissionsDropsRevoke(perms, k, st, description, targetCidrIP) ==
    IF k > Len(perms) THEN st
    ELSE LET ipPerm == perms[k] IN
         IF IsManagedShape(ipPerm)
         THEN LET acc == ScanRanges(ipPerm.IpRanges, 1,
                             [ruleNeedsAdding |-> st.ruleNeedsAdding,
                              ruleNeedsUpdate |-> st.ruleNeedsUpdate,
                              rangesToRevoke |-> <<>>,
                              rangesToKeep |-> <<>>],
                             description, targetCidrIP)
                  seen == [ruleNeedsUpdate |-> acc.ruleNeedsUpdate,
                           ruleNeedsAdding |-> acc.ruleNeedsAdding,
                           ruleToRevoke |-> st.ruleToRevoke]
              IN IF Len(acc.rangesToRevoke) > 0 \/ ~acc.ruleNeedsAdding
                 THEN seen
                 ELSE ScanPermissionsDropsRevoke(perms, k + 1, seen,
                                                 description, targetCidrIP)
         ELSE ScanPermissionsDropsRevoke(perms, k + 1, st, description, targetCidrIP)

\* main.go:159-198  the loop over the group's rules, from rule k on; st holds
\* ruleNeedsUpdate, ruleNeedsAdding and ruleToRevoke (empty: nil).
RECURSIVE ScanPermissions(_, _, _, _, _)
ScanPermissions(perms, k, st, description, targetCidrIP) ==
    IF k > Len(perms) THEN st
    ELSE LET ipPerm == perms[k] IN
         IF IsManagedShape(ipPerm)
         THEN LET acc == ScanRanges(ipPerm.IpRanges, 1,
                             [ruleNeedsAdding |-> st.ruleNeedsAdding,
                              ruleNeedsUpdate |-> st.ruleNeedsUpdate,
                              rangesToRevoke |-> <<>>,
                              rangesToKeep |-> <<>>],
                             description, targetCidrIP)
                  seen == [ruleNeedsUpdate |-> acc.ruleNeedsUpdate,
                           ruleNeedsAdding |-> acc.ruleNeedsAdding,
                           ruleToRevoke |-> st.ruleToRevoke]
              IN IF Len(acc.rangesToRevoke) > 0
                 THEN [seen EXCEPT !.ruleToRevoke =
                          <<IpPermission(ipPerm.IpProtocol, ipPerm.FromPort,
                                         ipPerm.ToPort, acc.rangesToRevoke)>>]
                 ELSE IF ~acc.ruleNeedsAdding
                      THEN seen
                      ELSE ScanPermissions(perms, k + 1, seen,
                                           description, targetCidrIP)
         ELSE ScanPermissions(perms, k + 1, st, description, targetCidrIP)

\* main.go:131-134 and 159-198  the plan computed from the fetched group
Plan(perms, description, targetCidrIP) ==
    ScanPermissions(perms, 1,
                    [ruleNeedsUpdate |-> FALSE,
                     ruleNeedsAdding |-> TRUE,
                     ruleToRevoke |-> <<>>],
                    description, targetCidrIP)

\* ------------------------------------- the remote API (EC2), as the code uses it
\* The CIDRs of a list of entries.
CidrsOf(ranges) == {ranges[i].CidrIp : i \in 1..Len(ranges)}

\* The place of the rule of perm's shape in a group's rules, 0 when it has none.
RuleAt(perms, perm) ==
    LET S == {k \in 1..Len(perms) : SameShape(perms[k], perm)}
    IN IF S = {} THEN 0 ELSE CHOOSE k \in S : \A j \in S : k <= j

\* The CIDRs the group holds under perm's shape.
RuleCidrs(perms, perm) ==
    IF RuleAt(perms, perm) = 0 THEN {}
    ELSE CidrsOf(perms[RuleAt(perms, perm)].IpRanges)

\* RevokeSecurityGroupIngress answers InvalidPermission.NotFound when an entry
\* it names (by shape and CIDR) is not in the group.
RevokeNotFound(perms, perm) ==
    ~(CidrsOf(perm.IpRanges) \subseteq RuleCidrs(perms, perm))

\* RevokeSecurityGroupIngress, on success: the named CIDRs leave the rule of
\* that shape; a rule left without entries leaves the group.
RevokeEffect(perms, perm) ==
    LET k == RuleAt(perms, perm)
        Stays(r) == r.CidrIp \notin CidrsOf(perm.IpRanges)
        NonEmpty(p) == Len(p.IpRanges) > 0
    IN IF k = 0 THEN perms
       ELSE SelectSeq([perms EXCEPT ![k].IpRanges = SelectSeq(@, Stays)],
                      NonEmpty)

\* AuthorizeSecurityGroupIngress answers InvalidPermission.Duplicate when the
\* group already holds a named CIDR under that shape, whatever its description.
AuthorizeDuplicate(perms, perm) ==
    CidrsOf(perm.IpRanges) \cap RuleCidrs(perms, perm) # {}

\* AuthorizeSecurityGroupIngress, on success: the entries join the rule of that
\* shape, which is created when the group has none.
AuthorizeEffect(perms, perm) ==
    LET k == RuleAt(perms, perm)
    IN IF k = 0 THEN Append(perms, perm)
       ELSE [perms EXCEPT ![k].IpRanges = @ \o perm.IpRanges]

\* ------------------------------------------------------------------ state
VARIABLES
    sg,               \* the remote groups: sg[g].exists, sg[g].IpPermissions
    others,           \* the number of changes other actors made so far
    publicIP,         \* the address getPublicIP returned
    description,      \* --my-name
    sgID,             \* sgID[t]: the group run t reconciles
    pc,               \* pc[t]: where run t of syncSecurityGroupRule stands
    ruleNeedsUpdate,  \* main.go:132
    ruleNeedsAdding,  \* main.go:133
    ruleToRevoke,     \* main.go:134 (<<>>: nil)
    theGroup,         \* main.go:157 the rules run t fetched (<<>>: none yet)
    err,              \* err[t]: what run t returned ("": still running)
    calls,            \* calls[t]: the remote calls of run t, in order
    flags,            \* main.go:288-291 myName, sgId, sgTagName
    mainPc,           \* where main stands
    exitCode,         \* the exit code of the process (-1: still running)
    steps,            \* the setup steps main took, in order, with their outcome
    mu,               \* the lock of the shared results (0: free, t: held by task t)
    tmp,              \* tmp[t]: the shared results as task t read them
    successCount,     \* the shared counter of successes
    failures          \* the shared list of failures

remoteVars == <<sg, others>>
inputVars == <<publicIP, description, sgID>>
localVars == <<ruleNeedsUpdate, ruleNeedsAdding, ruleToRevoke, theGroup>>
runVars == <<pc, err, calls>>
mainVars == <<flags, mainPc, exitCode, steps>>
fanVars == <<mu, tmp, successCount, failures>>
vars == <<sg, others, publicIP, description, sgID, pc, ruleNeedsUpdate,
          ruleNeedsAdding, ruleToRevoke, theGroup, err, calls,
          flags, mainPc, exitCode, steps, mu, tmp, successCount, failures>>

Runs == DOMAIN pc

\* A remote call as the log keeps it: the operation, the rule it carried and
\* the error code the remote answered ("": none).
Call(op, perms, code) == [op |-> op, IpPermissions |-> perms, code |-> code]

\* ------------------------------------------------------- the initial states
\* Lists of at most n entries with distinct CIDRs.
RangeLists(n) ==
    {s \in UNION {[1..m -> [CidrIp : Cidrs, Description : Descriptions]] : m \in 1..n} :
        \A i, j \in 1..Len(s) : s[i].CidrIp = s[j].CidrIp => i = j}

\* Rules of another protocol or port range, each holding an entry with the
\* managed description.
OtherRules ==
    {IpPermission("udp", 0, 65535, <<IpRange("5.6.7.8/32", "home")>>),
     IpPermission("tcp", 22, 65535, <<IpRange("1.2.3.4/32", "home")>>),
     IpPermission("tcp", 0, 22, <<IpRange("9.9.9.9/32", "home")>>)}

ManagedRules(n) == {IpPermission("tcp", 0, 65535, s) : s \in RangeLists(n)}

\* The rule lists of a group: at most one rule a shape (the remote groups
\* entries by protocol and port range): the managed rule with up to n entries,
\* a rule of another shape, or a one-entry managed rule before or after one.
Groups(n) ==
    {<<>>}
    \cup {<<p>> : p \in ManagedRules(n) \cup OtherRules}
    \cup {<<p, q>> : p \in ManagedRules(1), q \in OtherRules}
    \cup {<<q, p>> : p \in ManagedRules(1), q \in OtherRules}

Existing(perms) == [exists |-> TRUE, IpPermissions |-> perms]
Missing == [exists |-> FALSE, IpPermissions |-> <<>>]

\* main.go:131-134  the locals of a run before its first remote call
InitRuns(n, first) ==
    /\ pc = [t \in 1..n |-> IF t \in first THEN "describe" ELSE "idle"]
    /\ ruleNeedsUpdate = [t \in 1..n |-> FALSE]
    /\ ruleNeedsAdding = [t \in 1..n |-> TRUE]
    /\ ruleToRevoke = [t \in 1..n |-> <<>>]
    /\ theGroup = [t \in 1..n |-> <<>>]
    /\ err = [t \in 1..n |-> ""]
    /\ calls = [t \in 1..n |-> <<>>]
    /\ mu = 0
    /\ tmp = [t \in 1..n |-> <<>>]
    /\ successCount = 0
    /\ failures = <<>>

\* Successive invocations against one group, in any state it can be in, by a
\* main whose setup succeeded.
Init ==
    /\ flags = [myName |-> "home", sgId |-> "sg-1", sgTagName |-> ""]
    /\ mainPc = "syncing"
    /\ exitCode = -1
    /\ steps = <<>>
    /\ sg \in [{"sg-1"} -> {Existing(g) : g \in Groups(MaxRanges)} \cup {Missing}]
    /\ others = 0
    /\ publicIP = "5.6.7.8"
    /\ description = "home"
    /\ sgID = [t \in 1..MaxRuns |-> "sg-1"]
    /\ InitRuns(MaxRuns, {1})

\* ------------------------------------- syncSecurityGroupRule (main.go:130-285)
\* AfterRevoke with a fault (C2): the replace path never authorizes.
AfterRevokeSkipsReplace(adding, update) ==
    IF adding /\ ~update THEN "authorizeAdd" ELSE "done"

\* AfterRevoke with a fault (C3): the add path never authorizes.
AfterRevokeSkipsAdd(adding, update) ==
    IF adding /\ update THEN "authorizeReplace" ELSE "done"

\* AfterRevoke with a fault (C15): the replace path revokes once more.
AfterRevokeRevokesAgain(adding, update) ==
    IF adding /\ update THEN "revoke"
    ELSE IF adding /\ ~update THEN "authorizeAdd"
    ELSE "done"

\* main.go:221-282  the step after the revoke (or after the scan, with nothing
\* to revoke): the authorize of the replace path, that of the add path, or return.
AfterRevoke(adding, update) ==
    IF adding /\ update THEN "authorizeReplace"
    ELSE IF adding /\ ~update THEN "authorizeAdd"
    ELSE "done"

\* main.go:200  the step after the scan
AfterScan(plan) ==
    IF plan.ruleToRevoke # <<>> THEN "revoke"
    ELSE AfterRevoke(plan.ruleNeedsAdding, plan.ruleNeedsUpdate)

\* Return with a fault (C17): the error is logged and nil is returned.
ReturnSwallows(t, e) ==
    /\ pc' = [pc EXCEPT ![t] = "done"]
    /\ err' = [err EXCEPT ![t] = "nil"]

\* A run ends with the error e ("nil": success).
Return(t, e) ==
    /\ pc' = [pc EXCEPT ![t] = "done"]
    /\ err' = [err EXCEPT ![t] = e]

\* DescribeSecurityGroups with a fault (C16): an error of the describe other
\* than InvalidGroup.NotFound is logged, and the run goes on to add the entry.
DescribeSecurityGroupsGoesOn(t) ==
    /\ pc[t] = "describe"
    /\ UNCHANGED <<remoteVars, inputVars, mainVars, fanVars>>
    /\ \/ /\ ~sg[sgID[t]].exists
          /\ calls' = [calls EXCEPT ![t] = Append(@, Call("Describe", <<>>, "InvalidGroup.NotFound"))]
          /\ Return(t, "security group not found during rule sync")
          /\ UNCHANGED localVars
       \/ /\ calls' = [calls EXCEPT ![t] = Append(@, Call("Describe", <<>>, "RequestError"))]
          /\ pc' = [pc EXCEPT ![t] = "authorizeAdd"]
          /\ UNCHANGED <<err, localVars>>
       \/ /\ ~sg[sgID[t]].exists
          /\ calls' = [calls EXCEPT ![t] = Append(@, Call("Describe", <<>>, ""))]
          /\ Return(t, "security group description returned empty list")
          /\ UNCHANGED localVars
       \/ /\ sg[sgID[t]].exists
          /\ LET perms == sg[sgID[t]].IpPermissions
                 plan == Plan(perms, description, TargetCidr(publicIP))
             IN /\ calls' = [calls EXCEPT ![t] = Append(@, Call("Describe", perms, ""))]
                /\ theGroup' = [theGroup EXCEPT ![t] = <<perms>>]
                /\ ruleNeedsUpdate' = [ruleNeedsUpdate EXCEPT ![t] = plan.ruleNeedsUpdate]
                /\ ruleNeedsAdding' = [ruleNeedsAdding EXCEPT ![t] = plan.ruleNeedsAdding]
                /\ ruleToRevoke' = [ruleToRevoke EXCEPT ![t] = plan.ruleToRevoke]
                /\ IF AfterScan(plan) = "done"
                   THEN Return(t, "nil")
                   ELSE /\ pc' = [pc EXCEPT ![t] = AfterScan(plan)]
                        /\ UNCHANGED err

\* main.go:142-198  DescribeSecurityGroups, its errors, and the scan of the answer
DescribeSecurityGroups(t) ==
    /\ pc[t] = "describe"
    /\ UNCHANGED <<remoteVars, inputVars, mainVars, fanVars>>
    /\ \/ /\ ~sg[sgID[t]].exists
          /\ calls' = [calls EXCEPT ![t] = Append(@, Call("Describe", <<>>, "InvalidGroup.NotFound"))]
          /\ Return(t, "security group not found during rule sync")
          /\ UNCHANGED localVars
       \/ /\ calls' = [calls EXCEPT ![t] = Append(@, Call("Describe", <<>>, "RequestError"))]
          /\ Return(t, "failed to describe security group")
          /\ UNCHANGED localVars
       \/ /\ ~sg[sgID[t]].exists
          /\ calls' = [calls EXCEPT ![t] = Append(@, Call("Describe", <<>>, ""))]
          /\ Return(t, "security group description returned empty list")
          /\ UNCHANGED localVars
       \/ /\ sg[sgID[t]].exists
          /\ LET perms == sg[sgID[t]].IpPermissions
                 plan == Plan(perms, description, TargetCidr(publicIP))
             IN /\ calls' = [calls EXCEPT ![t] = Append(@, Call("Describe", perms, ""))]
                /\ theGroup' = [theGroup EXCEPT ![t] = <<perms>>]
                /\ ruleNeedsUpdate' = [ruleNeedsUpdate EXCEPT ![t] = plan.ruleNeedsUpdate]
                /\ ruleNeedsAdding' = [ruleNeedsAdding EXCEPT ![t] = plan.ruleNeedsAdding]
                /\ ruleToRevoke' = [ruleToRevoke EXCEPT ![t] = plan.ruleToRevoke]
                /\ IF AfterScan(plan) = "done"
                   THEN Return(t, "nil")
                   ELSE /\ pc' = [pc EXCEPT ![t] = AfterScan(plan)]
                        /\ UNCHANGED err

\* RevokeBenign with a fault (C9): every revoke error is let pass.
RevokeBenignAlways(code) == TRUE

\* RevokeBenign with a fault (C6): no revoke error is let pass.
RevokeBenignNever(code) == FALSE

\* main.go:211  the revoke error the run goes on after
RevokeBenign(code) == code = "InvalidPermission.NotFound"

\* main.go:200-219  RevokeSecurityGroupIngress of ruleToRevoke
RevokeSecurityGroupIngress(t) ==
    /\ pc[t] = "revoke"
    /\ UNCHANGED <<others, inputVars, localVars, mainVars, fanVars>>
    /\ LET perms == sg[sgID[t]].IpPermissions
           rule == ruleToRevoke[t][1]
       IN \E code \in {"", "InvalidPermission.NotFound", "RequestError"} :
            /\ code = "" => ~RevokeNotFound(perms, rule)
            /\ code = "InvalidPermission.NotFound" => RevokeNotFound(perms, rule)
            /\ sg' = IF code = ""
                     THEN [sg EXCEPT ![sgID[t]].IpPermissions = RevokeEffect(perms, rule)]
                     ELSE sg
            /\ calls' = [calls EXCEPT ![t] = Append(@, Call("Revoke", <<rule>>, code))]
            /\ IF code = "" \/ RevokeBenign(code)
               THEN IF AfterRevoke(ruleNeedsAdding[t], ruleNeedsUpdate[t]) = "done"
                    THEN Return(t, "nil")
                    ELSE /\ pc' = [pc EXCEPT ![t] = AfterRevoke(ruleNeedsAdding[t], ruleNeedsUpdate[t])]
                         /\ UNCHANGED err
               ELSE Return(t, "failed to revoke old security group rule")

\* AuthInput with a fault (C14): the entry carries no description.
AuthInputNoDescription(targetCidrIP, desc) ==
    IpPermission("tcp", 0, 65535, <<IpRange(targetCidrIP, "")>>)

\* main.go:224-239 and 254-269  the rule the authorize carries
AuthInput(targetCidrIP, desc) ==
    IpPermission("tcp", 0, 65535, <<IpRange(targetCidrIP, desc)>>)

\* AuthorizeBenign with a fault (C5): the code tested for is the revoke's.
AuthorizeBenignWrongCode(code) == code = "InvalidPermission.NotFound"

\* AuthorizeBenign with a fault (C19): no authorize error is let pass.
AuthorizeBenignNever(code) == FALSE

\* main.go:243 and 274  the authorize error the run takes for success
AuthorizeBenign(code) == code = "InvalidPermission.Duplicate"

\* AuthorizeSecurityGroupIngress and the handling of its error, at either place
AuthorizeSecurityGroupIngress(t) ==
    /\ UNCHANGED <<others, inputVars, localVars, mainVars, fanVars>>
    /\ LET perms == sg[sgID[t]].IpPermissions
           rule == AuthInput(TargetCidr(publicIP), description)
       IN \E code \in {"", "InvalidPermission.Duplicate", "RequestError"} :
            /\ code = "" => ~AuthorizeDuplicate(perms, rule)
            /\ code = "InvalidPermission.Duplicate" => AuthorizeDuplicate(perms, rule)
            /\ sg' = IF code = ""
                     THEN [sg EXCEPT ![sgID[t]].IpPermissions = AuthorizeEffect(perms, rule)]
                     ELSE sg
            /\ calls' = [calls EXCEPT ![t] = Append(@, Call("Authorize", <<rule>>, code))]
            /\ IF code = "" \/ AuthorizeBenign(code)
               THEN Return(t, "nil")
               ELSE Return(t, "failed to authorize new security group rule")

\* main.go:221-250  the authorize after a revoke
AuthorizeReplace(t) ==
    /\ pc[t] = "authorizeReplace"
    /\ AuthorizeSecurityGroupIngress(t)

\* main.go:251-282  the authorize with nothing revoked
AuthorizeAdd(t) ==
    /\ pc[t] = "authorizeAdd"
    /\ AuthorizeSecurityGroupIngress(t)

\* The tool is run again (a cron job, a shell alias) once the run before it ended.
Invoke(t) ==
    /\ pc[t] = "idle"
    /\ t > 1 /\ pc[t - 1] = "done"
    /\ pc' = [pc EXCEPT ![t] = "describe"]
    /\ UNCHANGED <<remoteVars, inputVars, localVars, err, calls, mainVars, fanVars>>

\* Another actor adds an entry to, or removes one from, the managed rule of a
\* group while a run against that group is between its describe and its return.
\* (Every group state is an initial state, so a change at another time starts
\* no behaviour that is not already there.)
OtherActor(g) ==
    /\ others < MaxOthers
    /\ sg[g].exists
    /\ \E t \in Runs : sgID[t] = g /\ pc[t] \in {"revoke", "authorizeReplace", "authorizeAdd"}
    /\ others' = others + 1
    /\ UNCHANGED <<inputVars, localVars, runVars, mainVars, fanVars>>
    /\ LET perms == sg[g].IpPermissions IN
       \E c \in Cidrs, d \in Descriptions :
          LET rule == AuthInput(c, d) IN
          \/ /\ ~AuthorizeDuplicate(perms, rule)
             /\ sg' = [sg EXCEPT ![g].IpPermissions = AuthorizeEffect(perms, rule)]
          \/ /\ ~RevokeNotFound(perms, rule)
             /\ sg' = [sg EXCEPT ![g].IpPermissions = RevokeEffect(perms, rule)]

Next ==
    \/ \E t \in Runs : DescribeSecurityGroups(t)
    \/ \E t \in Runs : RevokeSecurityGroupIngress(t)
    \/ \E t \in Runs : AuthorizeReplace(t)
    \/ \E t \in Runs : AuthorizeAdd(t)
    \/ \E t \in Runs : Invoke(t)
    \/ \E g \in DOMAIN sg : OtherActor(g)

Spec == Init /\ [][Next]_vars

\* main.go:130-285  a run that was entered takes its next step: every remote
\* call of syncSecurityGroupRule returns, with an answer or with an error.
RunStep(t) ==
    \/ DescribeSecurityGroups(t)
    \/ RevokeSecurityGroupIngress(t)
    \/ AuthorizeReplace(t)
    \/ AuthorizeAdd(t)

\* One invocation against one group, in any state it can be in, by a main whose
\* setup succeeded.
InitLive ==
    /\ flags = [myName |-> "home", sgId |-> "sg-1", sgTagName |-> ""]
    /\ mainPc = "syncing"
    /\ exitCode = -1
    /\ steps = <<>>
    /\ sg \in [{"sg-1"} -> {Existing(g) : g \in Groups(MaxRanges)} \cup {Missing}]
    /\ others = 0
    /\ publicIP = "5.6.7.8"
    /\ description = "home"
    /\ sgID = <<"sg-1">>
    /\ InitRuns(1, {1})

NextLive ==
    \/ \E t \in Runs : DescribeSecurityGroups(t)
    \/ \E t \in Runs : RevokeSecurityGroupIngress(t)
    \/ \E t \in Runs : AuthorizeReplace(t)
    \/ \E t \in Runs : AuthorizeAdd(t)
    \/ \E g \in DOMAIN sg : OtherActor(g)

\* The run takes its steps; whether another actor acts is left open.
SpecLive == InitLive /\ [][NextLive]_vars /\ WF_vars(RunStep(1))

\* ------------------------------------ two invocations at once (spec 5)
\* The rules of a group that holds one entry of the description, a stale one,
\* alone in the tcp 0-65535 rule or beside entries of another owner.
RaceGroups ==
    {<<IpPermission("tcp", 0, 65535, s)>> :
        s \in {r \in RangeLists(MaxRanges) :
                 /\ Cardinality({i \in 1..Len(r) : r[i].Description = "home"}) = 1
                 /\ \A i \in 1..Len(r) :
                       r[i].Description = "home" => r[i].CidrIp # TargetCidr("5.6.7.8")}}

\* Two invocations with the same group, address and description (two hosts
\* behind one address, a cron job that overlaps a manual run), both entered.
InitRace ==
    /\ flags = [myName |-> "home", sgId |-> "sg-1", sgTagName |-> ""]
    /\ mainPc = "syncing"
    /\ exitCode = -1
    /\ steps = <<>>
    /\ sg \in [{"sg-1"} -> {Existing(g) : g \in RaceGroups}]
    /\ others = 0
    /\ publicIP = "5.6.7.8"
    /\ description = "home"
    /\ sgID = <<"sg-1", "sg-1">>
    /\ InitRuns(2, {1, 2})

\* The remote calls of the two runs, interleaved in any order.
NextRace ==
    \/ \E t \in Runs : DescribeSecurityGroups(t)
    \/ \E t \in Runs : RevokeSecurityGroupIngress(t)
    \/ \E t \in Runs : AuthorizeReplace(t)
    \/ \E t \in Runs : AuthorizeAdd(t)

SpecRace == InitRace /\ [][NextRace]_vars

\* -------------------------------------------------- main (main.go:287-340)
\* A setup step as the log keeps it: the step, what it was given or found, and
\* the error it ended on ("": none).
Step(op, arg, code) == [op |-> op, arg |-> arg, code |-> code]

\* The steps that go to the network: the GET of getPublicIP and the describes
\* of findSecurityGroupID.
NetworkSteps ==
    LET Remote(st) == st.op \in {"getPublicIP", "DescribeByID", "DescribeByTag"}
    IN SelectSeq(steps, Remote)

\* The tag Name of the remote groups.
TagName(g) == IF g = "sg-1" THEN "web" ELSE "db"

\* main.go:97-106  the groups a describe filtered by tag:Name answers with
Tagged(name) == {g \in DOMAIN sg : sg[g].exists /\ TagName(g) = name}

\* main.go:298, 307 os.Exit(1); main.go:312-330 log.Fatalf; main.go:340 return
Exit(code) ==
    /\ mainPc' = "exit"
    /\ exitCode' = code

\* main.go:295-308  the flag values main rejects
UsageError(f) ==
    \/ f.myName = ""
    \/ f.sgId = "" /\ f.sgTagName = ""

\* main.go:288-308  flag.Parse and the checks of the flags
ParseFlags ==
    /\ mainPc = "flags"
    /\ IF UsageError(flags)
       THEN Exit(1)
       ELSE mainPc' = "getPublicIP" /\ UNCHANGED exitCode
    /\ UNCHANGED <<remoteVars, inputVars, localVars, runVars, flags, steps, fanVars>>

\* main.go:26-50 and 310-313  getPublicIP: the GET, and what makes it fail
getPublicIP ==
    /\ mainPc = "getPublicIP"
    /\ UNCHANGED <<remoteVars, description, sgID, localVars, runVars, flags, fanVars>>
    /\ \/ \E ip \in PublicIPs :
             /\ publicIP' = ip
             /\ steps' = Append(steps, Step("getPublicIP", ip, ""))
             /\ mainPc' = "loadAWSConfig"
             /\ UNCHANGED exitCode
       \/ \E code \in {"failed to get public IP", "invalid IP address received"} :
             /\ steps' = Append(steps, Step("getPublicIP", "", code))
             /\ Exit(1)
             /\ UNCHANGED publicIP

\* loadAWSConfig with a fault (C11): the error is logged and main goes on.
loadAWSConfigGoesOn ==
    /\ mainPc = "loadAWSConfig"
    /\ UNCHANGED <<remoteVars, inputVars, localVars, runVars, flags, fanVars>>
    /\ \E code \in {"", "failed to load AWS configuration"} :
          /\ steps' = Append(steps, Step("loadAWSConfig", "default", code))
          /\ mainPc' = "findSecurityGroupID"
          /\ UNCHANGED exitCode

\* main.go:52-67 and 315-319  loadAWSConfig
loadAWSConfig ==
    /\ mainPc = "loadAWSConfig"
    /\ UNCHANGED <<remoteVars, inputVars, localVars, runVars, flags, fanVars>>
    /\ \/ /\ steps' = Append(steps, Step("loadAWSConfig", "default", ""))
          /\ mainPc' = "findSecurityGroupID"
          /\ UNCHANGED exitCode
       \/ /\ steps' = Append(steps, Step("loadAWSConfig", "default",
                                         "failed to load AWS configuration"))
          /\ Exit(1)

\* findSecurityGroupID found the group g: main goes on to the sync with it.
Found(g) ==
    /\ sgID' = [sgID EXCEPT ![1] = g]
    /\ mainPc' = "sync"
    /\ UNCHANGED exitCode

\* main.go:69-128 and 323-326  findSecurityGroupID: by ID when one is given,
\* else by tag
findSecurityGroupID ==
    /\ mainPc = "findSecurityGroupID"
    /\ UNCHANGED <<remoteVars, publicIP, description, localVars, runVars, flags, fanVars>>
    /\ IF flags.sgId # ""
       THEN \/ /\ flags.sgId \in DOMAIN sg /\ sg[flags.sgId].exists
               /\ steps' = Append(steps, Step("DescribeByID", flags.sgId, ""))
               /\ Found(flags.sgId)
            \/ /\ ~(flags.sgId \in DOMAIN sg /\ sg[flags.sgId].exists)
               /\ steps' = Append(steps, Step("DescribeByID", flags.sgId, "InvalidGroup.NotFound"))
               /\ Exit(1)
               /\ UNCHANGED sgID
            \/ /\ steps' = Append(steps, Step("DescribeByID", flags.sgId, "RequestError"))
               /\ Exit(1)
               /\ UNCHANGED sgID
       ELSE IF flags.sgTagName # ""
       THEN \/ /\ steps' = Append(steps, Step("DescribeByTag", flags.sgTagName, "RequestError"))
               /\ Exit(1)
               /\ UNCHANGED sgID
            \/ /\ Cardinality(Tagged(flags.sgTagName)) = 0
               /\ steps' = Append(steps, Step("DescribeByTag", flags.sgTagName, "no security group found"))
               /\ Exit(1)
               /\ UNCHANGED sgID
            \/ /\ Cardinality(Tagged(flags.sgTagName)) > 1
               /\ steps' = Append(steps, Step("DescribeByTag", flags.sgTagName, "multiple security groups found"))
               /\ Exit(1)
               /\ UNCHANGED sgID
            \/ /\ Cardinality(Tagged(flags.sgTagName)) = 1
               /\ steps' = Append(steps, Step("DescribeByTag", flags.sgTagName, ""))
               /\ Found(CHOOSE g \in Tagged(flags.sgTagName) : TRUE)
       ELSE /\ steps' = Append(steps, Step("findSecurityGroupID", "", "you must specify either --sg-id or --sg-tag-name"))
            /\ Exit(1)
            /\ UNCHANGED sgID

\* main.go:328  the call of syncSecurityGroupRule(ctx, ec2Client, finalSgID, publicIP, *myName)
mainSync ==
    /\ mainPc = "sync"
    /\ pc[1] = "idle"
    /\ mainPc' = "syncing"
    /\ description' = flags.myName
    /\ pc' = [pc EXCEPT ![1] = "describe"]
    /\ UNCHANGED <<remoteVars, publicIP, sgID, localVars, err, calls, flags, exitCode, steps, fanVars>>

\* main.go:329-340  the error of the sync is fatal; without one main returns
mainReturn ==
    /\ mainPc = "syncing"
    /\ pc[1] = "done"
    /\ Exit(IF err[1] = "nil" THEN 0 ELSE 1)
    /\ UNCHANGED <<remoteVars, inputVars, localVars, runVars, flags, steps, fanVars>>

\* The values the flags are given.
FlagValues ==
    [myName : {"", "home"}, sgId : {"", "sg-1", "sg-2"}, sgTagName : {"", "web", "db"}]

\* One run of the program, with any flags, against three remote groups: sg-1,
\* tagged web, in any state of its managed rule; sg-2 and sg-3, tagged db.
InitMain ==
    /\ flags \in FlagValues
    /\ mainPc = "flags"
    /\ exitCode = -1
    /\ steps = <<>>
    /\ sg \in {f \in [{"sg-1", "sg-2", "sg-3"} ->
                       {Existing(g) : g \in {<<>>} \cup {<<p>> : p \in ManagedRules(1)}}
                       \cup {Missing}] :
                 /\ f["sg-2"].IpPermissions = <<>>
                 /\ f["sg-3"].IpPermissions = <<>>}
    /\ others = 0
    /\ publicIP = ""
    /\ description = ""
    /\ sgID = <<"">>
    /\ InitRuns(1, {})

NextMain ==
    \/ ParseFlags
    \/ getPublicIP
    \/ loadAWSConfig
    \/ findSecurityGroupID
    \/ mainSync
    \/ \E t \in Runs : DescribeSecurityGroups(t)
    \/ \E t \in Runs : RevokeSecurityGroupIngress(t)
    \/ \E t \in Runs : AuthorizeReplace(t)
    \/ \E t \in Runs : AuthorizeAdd(t)
    \/ \E g \in DOMAIN sg : OtherActor(g)
    \/ mainReturn

SpecMain == InitMain /\ [][NextMain]_vars

\* ------------------------------- the fan-out coordinator (spec 4.3 and 5)
\* One task a group ID, launched together and joined before the result; each
\* task records its one outcome in the shared results under the lock.

\* The coordinator launches the task of the next group ID.
Launch(t) ==
    /\ mainPc = "launch"
    /\ pc[t] = "idle"
    /\ \A j \in Runs : j < t => pc[j] # "idle"
    /\ pc' = [pc EXCEPT ![t] = "describe"]
    /\ UNCHANGED <<remoteVars, inputVars, localVars, err, calls, mainVars, fanVars>>

\* Lock with a fault (C10): the lock excludes nobody.
LockExcludesNobody(t) ==
    /\ mainPc = "launch"
    /\ pc[t] = "done"
    /\ mu' = t
    /\ pc' = [pc EXCEPT ![t] = "locked"]
    /\ UNCHANGED <<remoteVars, inputVars, localVars, err, calls, mainVars,
                   tmp, successCount, failures>>

\* A task whose reconciliation returned takes the lock of the shared results.
Lock(t) ==
    /\ mainPc = "launch"
    /\ pc[t] = "done"
    /\ mu = 0
    /\ mu' = t
    /\ pc' = [pc EXCEPT ![t] = "locked"]
    /\ UNCHANGED <<remoteVars, inputVars, localVars, err, calls, mainVars,
                   tmp, successCount, failures>>

\* The task reads the shared counter and list.
ReadResults(t) ==
    /\ pc[t] = "locked"
    /\ tmp' = [tmp EXCEPT ![t] = <<[successCount |-> successCount, failures |-> failures]>>]
    /\ pc' = [pc EXCEPT ![t] = "read"]
    /\ UNCHANGED <<remoteVars, inputVars, localVars, err, calls, mainVars,
                   mu, successCount, failures>>

\* The task writes its outcome: a success counted, or a failure listed with
\* the group ID and the error.
WriteResults(t) ==
    /\ pc[t] = "read"
    /\ IF err[t] = "nil"
       THEN /\ successCount' = tmp[t][1].successCount + 1
            /\ failures' = tmp[t][1].failures
       ELSE /\ successCount' = tmp[t][1].successCount
            /\ failures' = Append(tmp[t][1].failures,
                                  [groupID |-> sgID[t], err |-> err[t]])
    /\ pc' = [pc EXCEPT ![t] = "recorded"]
    /\ UNCHANGED <<remoteVars, inputVars, localVars, err, calls, mainVars, mu, tmp>>

\* The task releases the lock and ends.
Unlock(t) ==
    /\ pc[t] = "recorded"
    /\ mu' = 0
    /\ pc' = [pc EXCEPT ![t] = "joined"]
    /\ UNCHANGED <<remoteVars, inputVars, localVars, err, calls, mainVars,
                   tmp, successCount, failures>>

\* The coordinator, every task joined, declares the overall result.
Join ==
    /\ mainPc = "launch"
    /\ \A t \in Runs : pc[t] = "joined"
    /\ Exit(IF failures = <<>> THEN 0 ELSE 1)
    /\ UNCHANGED <<remoteVars, inputVars, localVars, runVars, flags, steps, fanVars>>

\* The states a group of a batch starts in: without rules, with a stale entry
\* of the description, with the correct entry, or deleted since it was resolved.
BatchGroups ==
    {Existing(<<>>),
     Existing(<<IpPermission("tcp", 0, 65535, <<IpRange("9.9.9.9/32", "home")>>)>>),
     Existing(<<IpPermission("tcp", 0, 65535, <<IpRange("5.6.7.8/32", "home")>>)>>),
     Missing}

\* A batch over one, two or three resolved group IDs.
InitFan ==
    /\ flags = [myName |-> "home", sgId |-> "sg-1,sg-2,sg-3", sgTagName |-> ""]
    /\ mainPc = "launch"
    /\ exitCode = -1
    /\ steps = <<>>
    /\ sg \in [{"sg-1", "sg-2", "sg-3"} -> BatchGroups]
    /\ others = 0
    /\ publicIP = "5.6.7.8"
    /\ description = "home"
    /\ sgID \in {<<"sg-1">>, <<"sg-1", "sg-2">>, <<"sg-1", "sg-2", "sg-3">>}
    /\ pc \in {[t \in 1..Len(sgID) |-> "idle"]}
    /\ ruleNeedsUpdate = [t \in DOMAIN pc |-> FALSE]
    /\ ruleNeedsAdding = [t \in DOMAIN pc |-> TRUE]
    /\ ruleToRevoke = [t \in DOMAIN pc |-> <<>>]
    /\ theGroup = [t \in DOMAIN pc |-> <<>>]
    /\ err = [t \in DOMAIN pc |-> ""]
    /\ calls = [t \in DOMAIN pc |-> <<>>]
    /\ mu = 0
    /\ tmp = [t \in DOMAIN pc |-> <<>>]
    /\ successCount = 0
    /\ failures = <<>>

NextFan ==
    \/ \E t \in Runs : Launch(t)
    \/ \E t \in Runs : DescribeSecurityGroups(t)
    \/ \E t \in Runs : RevokeSecurityGroupIngress(t)
    \/ \E t \in Runs : AuthorizeReplace(t)
    \/ \E t \in Runs : AuthorizeAdd(t)
    \/ \E t \in Runs : Lock(t)
    \/ \E t \in Runs : ReadResults(t)
    \/ \E t \in Runs : WriteResults(t)
    \/ \E t \in Runs : Unlock(t)
    \/ Join

SpecFan == InitFan /\ [][NextFan]_vars

\* ------------------------------------------------- what the claims speak of
\* The entries a group holds in rules of the managed shape, in iteration order.
RECURSIVE ManagedEntries(_)
ManagedEntries(perms) ==
    IF perms = <<>> THEN <<>>
    ELSE (IF IsManagedShape(Head(perms)) THEN Head(perms).IpRanges ELSE <<>>)
         \o ManagedEntries(Tail(perms))

\* The group holds the entry (cidr, desc) in a rule of the managed shape.
HasEntry(perms, cidr, desc) ==
    \E i \in 1..Len(ManagedEntries(perms)) :
        ManagedEntries(perms)[i] = IpRange(cidr, desc)

\* The managed-shape entries that carry the description desc.
EntriesOf(perms, desc) ==
    LET Mine(r) == r.Description = desc IN SelectSeq(ManagedEntries(perms), Mine)

\* Those of them whose CIDR is not cidr: the stale entries.
StaleEntries(perms, cidr, desc) ==
    LET Stale(r) == r.Description = desc /\ r.CidrIp # cidr
    IN SelectSeq(ManagedEntries(perms), Stale)

\* An entry with the description follows the entry (cidr, desc).
StaleAfterCorrect(perms, cidr, desc) ==
    \E i, j \in 1..Len(ManagedEntries(perms)) :
        /\ i < j
        /\ ManagedEntries(perms)[i] = IpRange(cidr, desc)
        /\ ManagedEntries(perms)[j].Description = desc

\* What a group holds beside the managed-shape entries of description desc.
Foreign(perms, desc) ==
    LET NotMine(r) == r.Description # desc
        NonEmpty(p) == Len(p.IpRanges) > 0
    IN SelectSeq([k \in 1..Len(perms) |->
                     IF IsManagedShape(perms[k])
                     THEN [perms[k] EXCEPT !.IpRanges = SelectSeq(@, NotMine)]
                     ELSE perms[k]],
                 NonEmpty)

\* The revokes and authorizes of run t, in order.
Mutations(t) ==
    LET Mutating(c) == c.op \in {"Revoke", "Authorize"} IN SelectSeq(calls[t], Mutating)

\* The operations of run t's calls, in order.
Ops(t) == [i \in 1..Len(calls[t]) |-> calls[t][i].op]

\* Every remote call run t made so far succeeded.
Worked(t) == \A i \in 1..Len(calls[t]) : calls[t][i].code = ""

\* No remote call run t made so far failed for a reason other than the state
\* of the group (no error but InvalidPermission.NotFound or .Duplicate).
NoOutage(t) == \A i \in 1..Len(calls[t]) : calls[t][i].code # "RequestError"

\* Run t fetched the group.
Fetched(t) == theGroup[t] # <<>>

Target == TargetCidr(publicIP)

\* ----------------------------------------------------------------- claims
\* C1 (idempotence): when a run fetched a group that holds the entry
\* (targetCidr, description) in its tcp 0-65535 rule, no other actor changed the
\* group and no remote call failed on a request error, the run that follows it
\* issues no revoke and no authorize, and returns success.
C1_Idempotence ==
    \A t \in Runs :
        ( /\ (t + 1) \in Runs
          /\ pc[t + 1] = "done"
          /\ others = 0
          /\ NoOutage(t) /\ NoOutage(t + 1)
          /\ Fetched(t)
          /\ HasEntry(theGroup[t][1], Target, description) )
        => (Mutations(t + 1) = <<>> /\ err[t + 1] = "nil")

\* A second run ended against a group that held the correct entry from the start,
\* a stale one before it.
C1_Witness ==
    /\ pc[2] = "done" /\ others = 0 /\ Worked(1) /\ Worked(2)
    /\ Fetched(1)
    /\ HasEntry(theGroup[1][1], Target, description)
    /\ StaleEntries(theGroup[1][1], Target, description) # <<>>
    /\ Ops(1) = <<"Describe", "Revoke">>
    /\ Ops(2) = <<"Describe">>
    /\ err[2] = "nil"

\* C2 (convergence): when a run fetched a group whose tcp 0-65535 rule holds
\* stale entries of the description and no entry with the target CIDR, no other
\* actor changed the group and every remote call succeeded, the run issued,
\* after its describe, exactly one revoke carrying tcp 0-65535 and the stale
\* entries only, then exactly one authorize of (tcp, 0, 65535, targetCidr,
\* description); the run that follows it issues no revoke and no authorize.
C2_Convergence ==
    \A t \in Runs :
        ( /\ pc[t] = "done"
          /\ others = 0
          /\ Worked(t)
          /\ Fetched(t)
          /\ StaleEntries(theGroup[t][1], Target, description) # <<>>
          /\ Target \notin CidrsOf(ManagedEntries(theGroup[t][1])) )
        => /\ Mutations(t) =
                <<Call("Revoke",
                       <<IpPermission("tcp", 0, 65535,
                             StaleEntries(theGroup[t][1], Target, description))>>,
                       ""),
                  Call("Authorize",
                       <<IpPermission("tcp", 0, 65535,
                             <<IpRange(Target, description)>>)>>,
                       "")>>
           /\ Ops(t) = <<"Describe", "Revoke", "Authorize">>
           /\ ( ((t + 1) \in Runs /\ pc[t + 1] = "done" /\ NoOutage(t + 1))
                => Mutations(t + 1) = <<>> )

\* A run replaced a stale entry that stood beside another owner's entry, and
\* the run after it ended.
C2_Witness ==
    /\ pc[2] = "done" /\ others = 0 /\ Worked(1) /\ Worked(2)
    /\ Fetched(1)
    /\ Len(StaleEntries(theGroup[1][1], Target, description)) = 1
    /\ Len(ManagedEntries(theGroup[1][1])) = 2
    /\ Target \notin CidrsOf(ManagedEntries(theGroup[1][1]))
    /\ Ops(1) = <<"Describe", "Revoke", "Authorize">>
    /\ Ops(2) = <<"Describe">>

\* C3 (recovery after a partial failure): when a run's revoke succeeded and its
\* authorize failed on a request error, the run returned an error and left the
\* group with no entry of the description; the next run, with no other actor
\* and every remote call succeeding, issues one authorize and no revoke,
\* returns success, and leaves the entry (targetCidr, description) in the group.
C3_Recovery ==
    \A t \in Runs :
        ( /\ (t + 1) \in Runs
          /\ others = 0
          /\ Len(calls[t]) = 3
          /\ calls[t][2].op = "Revoke" /\ calls[t][2].code = ""
          /\ calls[t][3].op = "Authorize" /\ calls[t][3].code = "RequestError" )
        => /\ pc[t] = "done" /\ err[t] \notin {"", "nil"}
           /\ ( pc[t + 1] = "idle"
                => EntriesOf(sg[sgID[t]].IpPermissions, description) = <<>> )
           /\ ( (pc[t + 1] = "done" /\ Worked(t + 1))
                => /\ Ops(t + 1) = <<"Describe", "Authorize">>
                   /\ err[t + 1] = "nil"
                   /\ HasEntry(sg[sgID[t]].IpPermissions, Target, description) )

\* A run lost its authorize after its revoke, and the next run added the entry.
C3_Witness ==
    /\ others = 0
    /\ Ops(1) = <<"Describe", "Revoke", "Authorize">>
    /\ calls[1][2].code = "" /\ calls[1][3].code = "RequestError"
    /\ err[1] = "failed to authorize new security group rule"
    /\ pc[2] = "done" /\ Worked(2) /\ err[2] = "nil"
    /\ Ops(2) = <<"Describe", "Authorize">>
    /\ HasEntry(sg["sg-1"].IpPermissions, Target, description)

\* C4, as claimed (single managed entry): after a run returned success, with no
\* other actor, the group holds at most one entry of the description in the
\* tcp 0-65535 rule, whatever it held before.
C4_SingleEntryAlways ==
    \A t \in Runs :
        (pc[t] = "done" /\ err[t] = "nil" /\ others = 0)
        => Len(EntriesOf(sg[sgID[t]].IpPermissions, description)) <= 1

\* C4, amended: after a run returned success, with no other actor, the group
\* holds at most one entry of the description in the tcp 0-65535 rule, provided
\* the rule the run fetched held no entry of the description after the entry
\* (targetCidr, description).
C4_SingleEntry ==
    \A t \in Runs :
        ( /\ pc[t] = "done" /\ err[t] = "nil" /\ others = 0
          /\ ~StaleAfterCorrect(theGroup[t][1], Target, description) )
        => Len(EntriesOf(sg[sgID[t]].IpPermissions, description)) <= 1

\* A run that fetched two stale entries of the description returned success
\* and left one entry of the description, the correct one.
C4_Witness ==
    /\ pc[1] = "done" /\ err[1] = "nil" /\ others = 0
    /\ Len(StaleEntries(theGroup[1][1], Target, description)) = 2
    /\ pc[2] = "idle"
    /\ EntriesOf(sg["sg-1"].IpPermissions, description)
          = <<IpRange(Target, description)>>

\* C5 (duplicate tolerance): a run whose authorize, after a revoke or without
\* one, was answered InvalidPermission.Duplicate returns success.
C5_DuplicateTolerance ==
    \A t \in Runs :
        ( /\ calls[t] # <<>>
          /\ calls[t][Len(calls[t])].op = "Authorize"
          /\ calls[t][Len(calls[t])].code = "InvalidPermission.Duplicate" )
        => (pc[t] = "done" /\ err[t] = "nil")

\* The authorize of the replace path and, in the next run, that of the add
\* path were both answered InvalidPermission.Duplicate.
C5_Witness ==
    /\ Ops(1) = <<"Describe", "Revoke", "Authorize">>
    /\ calls[1][3].code = "InvalidPermission.Duplicate"
    /\ Ops(2) = <<"Describe", "Authorize">>
    /\ calls[2][2].code = "InvalidPermission.Duplicate"
    /\ err[1] = "nil" /\ err[2] = "nil"

\* C6 (not-found tolerance on revoke): a run whose revoke was answered
\* InvalidPermission.NotFound goes on as after a successful revoke: to the
\* authorize when the entry is to be added, to a successful return otherwise;
\* it never returns the revoke's error, and returns success when its authorize
\* succeeds.
C6_RevokeNotFoundTolerance ==
    \A t \in Runs :
        ( /\ Len(calls[t]) >= 2
          /\ calls[t][2].op = "Revoke"
          /\ calls[t][2].code = "InvalidPermission.NotFound" )
        => IF ruleNeedsAdding[t]
           THEN /\ Len(calls[t]) = 2 => pc[t] = "authorizeReplace" /\ err[t] = ""
                /\ Len(calls[t]) > 2
                     => /\ Ops(t) = <<"Describe", "Revoke", "Authorize">>
                        /\ pc[t] = "done"
                        /\ calls[t][3].code = "" => err[t] = "nil"
           ELSE Len(calls[t]) = 2 /\ pc[t] = "done" /\ err[t] = "nil"

\* The stale entry vanished between the describe and the revoke; the revoke was
\* answered InvalidPermission.NotFound, the authorize succeeded and so did the run.
C6_Witness ==
    /\ Ops(1) = <<"Describe", "Revoke", "Authorize">>
    /\ calls[1][2].code = "InvalidPermission.NotFound"
    /\ calls[1][3].code = ""
    /\ pc[1] = "done" /\ err[1] = "nil"

\* C7 (frame): the revoke of a run carries the shape tcp 0-65535 and only
\* entries of the fetched group's tcp 0-65535 rule whose description is the
\* managed one and whose CIDR is not the target; and with no other actor, what
\* the group holds beside the tcp 0-65535 entries of the description (entries of
\* other descriptions, rules of another protocol or port range) is, after the
\* run, what the run fetched.
C7_Frame ==
    \A t \in Runs :
        /\ \A i \in 1..Len(calls[t]) :
              calls[t][i].op = "Revoke"
              => LET rule == calls[t][i].IpPermissions[1] IN
                 /\ Len(calls[t][i].IpPermissions) = 1
                 /\ IsManagedShape(rule)
                 /\ rule.IpProtocol = "tcp" /\ rule.FromPort = 0 /\ rule.ToPort = 65535
                 /\ \A j \in 1..Len(rule.IpRanges) :
                       /\ rule.IpRanges[j].Description = description
                       /\ rule.IpRanges[j].CidrIp # Target
                       /\ \E k \in 1..Len(ManagedEntries(theGroup[t][1])) :
                             ManagedEntries(theGroup[t][1])[k] = rule.IpRanges[j]
        /\ (pc[t] = "done" /\ Fetched(t) /\ others = 0)
           => Foreign(sg[sgID[t]].IpPermissions, description)
                 = Foreign(theGroup[t][1], description)

\* A run replaced the stale entry of a group that held, before its managed
\* rule, a rule tcp 22-65535 with a stale entry of the description, and that
\* rule is still there, untouched.
C7_Witness ==
    /\ pc[1] = "done" /\ Fetched(1)
    /\ Ops(1) = <<"Describe", "Revoke", "Authorize">>
    /\ calls[1][2].code = "" /\ calls[1][3].code = ""
    /\ Len(theGroup[1][1]) = 2
    /\ theGroup[1][1][1] = IpPermission("tcp", 22, 65535, <<IpRange("1.2.3.4/32", "home")>>)
    /\ sg["sg-1"].IpPermissions[1] = theGroup[1][1][1]
    /\ others = 0
    /\ Foreign(sg["sg-1"].IpPermissions, description)
          = Foreign(theGroup[1][1], description)

\* C8, as claimed (mutual exclusivity): with both --sg-id and --sg-tag-name
\* given, the program ends with a usage error before any network call: no
\* public-IP lookup, no describe, no revoke, no authorize.
C8_BothRejected ==
    (flags.sgId # "" /\ flags.sgTagName # "")
    => /\ mainPc \in {"flags", "exit"}
       /\ mainPc = "exit" => exitCode = 1
       /\ NetworkSteps = <<>>
       /\ \A t \in Runs : calls[t] = <<>>

\* C8, what main.go does instead: with both --sg-id and --sg-tag-name given (and
\* --my-name), the program does not reject the invocation: it goes on to the public-IP lookup,
\* resolves the group by a describe of --sg-id and never by tag, and
\* reconciles that group; --sg-tag-name is ignored.  It rejects, before any
\* network call, only a missing --my-name and the absence of both flags.
C8_IdTakesPrecedence ==
    /\ (flags.sgId # "" /\ flags.sgTagName # "" /\ flags.myName # "")
       => /\ mainPc = "exit" => steps # <<>> /\ steps[1].op = "getPublicIP"
          /\ \A i \in 1..Len(steps) :
                /\ steps[i].op # "DescribeByTag"
                /\ steps[i].op = "DescribeByID" => steps[i].arg = flags.sgId
          /\ sgID[1] \in {"", flags.sgId}
          /\ (mainPc = "exit" /\ exitCode = 0)
             => /\ Ops(1) # <<>>
                /\ sgID[1] = flags.sgId
    /\ (flags.myName = "" \/ (flags.sgId = "" /\ flags.sgTagName = ""))
       => /\ mainPc \in {"flags", "exit"}
          /\ mainPc = "exit" => exitCode = 1
          /\ NetworkSteps = <<>>
          /\ \A t \in Runs : calls[t] = <<>>

\* Both flags were given, and the program ended with exit code 0 after it
\* looked up the address, verified --sg-id and authorized the entry.
C8_Witness ==
    /\ flags.sgId = "sg-2" /\ flags.sgTagName = "web" /\ flags.myName = "home"
    /\ mainPc = "exit" /\ exitCode = 0
    /\ [i \in 1..Len(steps) |-> steps[i].op]
          = <<"getPublicIP", "loadAWSConfig", "DescribeByID">>
    /\ sgID[1] = "sg-2"
    /\ Ops(1) = <<"Describe", "Authorize">>
    /\ HasEntry(sg["sg-2"].IpPermissions, Target, "home")

\* The tasks whose outcome is in the shared results.
Recorded == {t \in Runs : pc[t] \in {"recorded", "joined"}}

\* The places of group ID g in the list of failures.
FailuresOf(g) == {i \in 1..Len(failures) : failures[i].groupID = g}

StepOps == [i \in 1..Len(steps) |-> steps[i].op]

\* A setup step ended on an error.
SetupFailed == \E i \in 1..Len(steps) : steps[i].code # ""

\* The three setup steps were taken in order and each succeeded.
SetupDone ==
    /\ Len(steps) = 3
    /\ \A i \in 1..3 : steps[i].code = ""
    /\ steps[1].op = "getPublicIP"
    /\ steps[2].op = "loadAWSConfig"
    /\ steps[3].op \in {"DescribeByID", "DescribeByTag"}

\* C11 (setup failures precede all mutations): when the public-IP lookup, the
\* loading of the configuration or the resolution of the group failed, the
\* program ended with exit code 1, the failed step is its last, and no run made
\* any remote call; a run makes a remote call (so a revoke or an authorize)
\* only after the three setup steps were taken in that order and succeeded,
\* with the address the lookup returned and the group ID the locator resolved:
\* --sg-id as verified, or else the one group tagged --sg-tag-name.
C11_SetupPrecedesMutations ==
    /\ SetupFailed
       => /\ mainPc = "exit" /\ exitCode = 1
          /\ \A i \in 1..Len(steps) : steps[i].code # "" => i = Len(steps)
          /\ \A t \in Runs : calls[t] = <<>> /\ pc[t] = "idle"
    /\ \A i \in 1..Len(steps) :
          i <= 3 /\ steps[i].op = <<"getPublicIP", "loadAWSConfig",
                                    IF flags.sgId # "" THEN "DescribeByID"
                                    ELSE "DescribeByTag">>[i]
    /\ \A t \in Runs :
          (calls[t] # <<>> \/ pc[t] # "idle")
          => /\ SetupDone
             /\ publicIP = steps[1].arg
             /\ IF flags.sgId # ""
                THEN steps[3] = Step("DescribeByID", flags.sgId, "")
                     /\ sgID[t] = flags.sgId
                ELSE steps[3] = Step("DescribeByTag", flags.sgTagName, "")
                     /\ sgID[t] \in DOMAIN sg
                     /\ TagName(sgID[t]) = flags.sgTagName

\* The resolution by tag found two groups after the address and the
\* configuration were there: the program ended with exit code 1, no remote call
\* of a run made.
C11_Witness ==
    /\ mainPc = "exit" /\ exitCode = 1
    /\ StepOps = <<"getPublicIP", "loadAWSConfig", "DescribeByTag">>
    /\ steps[1].code = "" /\ steps[2].code = ""
    /\ steps[3].code = "multiple security groups found"
    /\ \A t \in Runs : calls[t] = <<>>
    /\ publicIP # ""

\* A run issued an authorize with the group ID the tag resolved to.
C11_ReachedMutation ==
    /\ SetupDone
    /\ steps[3].op = "DescribeByTag"
    /\ sgID[1] = "sg-1"
    /\ Mutations(1) # <<>>

\* The entries of the description that stand before the entry (cidr, desc) in
\* the managed-shape entries: what the scan has marked when it stops there.
StaleBeforeCorrect(perms, cidr, desc) ==
    LET es == ManagedEntries(perms)
        At == {i \in 1..Len(es) : es[i] = IpRange(cidr, desc)}
        first == CHOOSE i \in At : \A j \in At : i <= j
        Stale(r) == r.Description = desc /\ r.CidrIp # cidr
    IN IF At = {} THEN <<>> ELSE SelectSeq(SubSeq(es, 1, first - 1), Stale)

\* C12, as claimed (decision policy, correct entry present): a run that fetched
\* a group holding the entry (targetCidr, description) in a tcp 0-65535 rule
\* issues no revoke and no authorize, wherever stale entries of the
\* description stand in that rule.
C12_NoMutationWhereverStale ==
    \A t \in Runs :
        (Fetched(t) /\ HasEntry(theGroup[t][1], Target, description))
        => Mutations(t) = <<>>

\* C12, amended: a run that fetched a group holding the entry (targetCidr,
\* description) in a tcp 0-65535 rule never issues an authorize; it issues no
\* revoke either when no stale entry of the description stands before that
\* entry, and returns success after the describe; when stale entries of the
\* description stand before it, the run issues one revoke carrying exactly
\* those, and returns after it.
C12_CorrectEntryPresent ==
    \A t \in Runs :
        (Fetched(t) /\ HasEntry(theGroup[t][1], Target, description))
        => LET before == StaleBeforeCorrect(theGroup[t][1], Target, description) IN
           /\ \A i \in 1..Len(calls[t]) : calls[t][i].op # "Authorize"
           /\ ~ruleNeedsAdding[t]
           /\ IF before = <<>>
              THEN /\ Ops(t) = <<"Describe">>
                   /\ pc[t] = "done" /\ err[t] = "nil"
              ELSE /\ ruleToRevoke[t] = <<IpPermission("tcp", 0, 65535, before)>>
                   /\ \/ pc[t] = "revoke" /\ Ops(t) = <<"Describe">>
                      \/ /\ pc[t] = "done"
                         /\ Ops(t) = <<"Describe", "Revoke">>
                         /\ calls[t][2].IpPermissions = ruleToRevoke[t]

\* A run fetched the rule [stale, correct], revoked the stale entry and
\* returned success without an authorize.
C12_Witness ==
    /\ Fetched(1)
    /\ ManagedEntries(theGroup[1][1])
          = <<IpRange("9.9.9.9/32", "home"), IpRange(Target, "home")>>
    /\ Ops(1) = <<"Describe", "Revoke">>
    /\ calls[1][2] = Call("Revoke",
                          <<IpPermission("tcp", 0, 65535,
                                <<IpRange("9.9.9.9/32", "home")>>)>>, "")
    /\ pc[1] = "done" /\ err[1] = "nil"

\* The entries of the description that stand after the entry (cidr, desc) in
\* the managed-shape entries: those the scan never reaches.
StaleAfter(perms, cidr, desc) ==
    LET es == ManagedEntries(perms)
        At == {i \in 1..Len(es) : es[i] = IpRange(cidr, desc)}
        first == CHOOSE i \in At : \A j \in At : i <= j
        Stale(r) == r.Description = desc /\ r.CidrIp # cidr
    IN IF At = {} THEN <<>> ELSE SelectSeq(SubSeq(es, first + 1, Len(es)), Stale)

\* The entries a sequence holds.
Range(seq) == {seq[i] : i \in 1..Len(seq)}

\* The entries the revokes of run t carried.
Revoked(t) ==
    UNION {Range(calls[t][i].IpPermissions[1].IpRanges) :
              i \in {j \in 1..Len(calls[t]) : calls[t][j].op = "Revoke"}}

\* C13 (early stop): a run that fetched a tcp 0-65535 rule holding the entry
\* (targetCidr, description) marks no entry of the description that stands
\* after it, and carries none in a revoke; with no other actor these entries are
\* in the group after the run, still after the correct entry, and the run that
\* follows carries none of them in a revoke and leaves them in the group too.
C13_EarlyStop ==
    \A t \in Runs :
        (Fetched(t) /\ HasEntry(theGroup[t][1], Target, description))
        => LET after == Range(StaleAfter(theGroup[t][1], Target, description))
               Now == sg[sgID[t]].IpPermissions
           IN /\ Revoked(t) \cap after = {}
              /\ ruleToRevoke[t] # <<>>
                 => Range(ruleToRevoke[t][1].IpRanges) \cap after = {}
              /\ (pc[t] = "done" /\ others = 0)
                 => /\ after \subseteq Range(ManagedEntries(Now))
                    /\ after = Range(StaleAfter(Now, Target, description))
              /\ ((t + 1) \in Runs /\ others = 0)
                 => Revoked(t + 1) \cap after = {}

\* Two runs ended against the rule [correct, stale]: neither issued a revoke
\* or an authorize, and the stale entry is in the group.
C13_Witness ==
    /\ Fetched(1)
    /\ ManagedEntries(theGroup[1][1])
          = <<IpRange(Target, "home"), IpRange("9.9.9.9/32", "home")>>
    /\ pc[1] = "done" /\ pc[2] = "done" /\ others = 0
    /\ Ops(1) = <<"Describe">> /\ Ops(2) = <<"Describe">>
    /\ err[1] = "nil" /\ err[2] = "nil"
    /\ ManagedEntries(sg["sg-1"].IpPermissions) = ManagedEntries(theGroup[1][1])

\* C14 (decision policy, no entry present): a run that fetched a group with no
\* entry of the description in a tcp 0-65535 rule (no rule at all, rules of
\* another protocol or port range only, or entries of other descriptions only)
\* marks nothing to revoke and goes from the describe to the authorize of the
\* add path; it never issues a revoke, and when it has returned it has issued
\* exactly one authorize, carrying exactly (tcp, 0, 65535, publicIP + "/32",
\* description), whatever the remote answered.
C14_NoEntryPresent ==
    \A t \in Runs :
        (Fetched(t) /\ EntriesOf(theGroup[t][1], description) = <<>>)
        => /\ ruleToRevoke[t] = <<>>
           /\ ruleNeedsAdding[t] /\ ~ruleNeedsUpdate[t]
           /\ \A i \in 1..Len(calls[t]) : calls[t][i].op # "Revoke"
           /\ \/ pc[t] = "authorizeAdd" /\ Ops(t) = <<"Describe">>
              \/ /\ pc[t] = "done"
                 /\ Ops(t) = <<"Describe", "Authorize">>
                 /\ calls[t][2].IpPermissions
                       = <<[IpProtocol |-> "tcp", FromPort |-> 0, ToPort |-> 65535,
                            IpRanges |-> <<[CidrIp |-> publicIP \o "/32",
                                            Description |-> description]>>]>>

\* A run fetched a group whose only rule is udp 0-65535 with an entry of the
\* description, issued the one authorize, and the group now holds the entry in
\* a new tcp 0-65535 rule.
C14_Witness ==
    /\ Fetched(1)
    /\ theGroup[1][1] = <<IpPermission("udp", 0, 65535, <<IpRange("5.6.7.8/32", "home")>>)>>
    /\ pc[1] = "done" /\ err[1] = "nil"
    /\ Ops(1) = <<"Describe", "Authorize">>
    /\ calls[1][2].code = ""
    /\ sg["sg-1"].IpPermissions
          = Append(theGroup[1][1],
                   IpPermission("tcp", 0, 65535, <<IpRange("5.6.7.8/32", "home")>>))

\* The calls of a run so far are in the order describe, revoke, authorize: one
\* describe first, then at most one revoke, then at most one authorize; a run
\* that was entered and has made no call is at its describe, and a run that has
\* returned made its describe and returned success or an error.
CallsInOrder(t) ==
    /\ Ops(t) \in {<<>>, <<"Describe">>, <<"Describe", "Revoke">>,
                   <<"Describe", "Authorize">>,
                   <<"Describe", "Revoke", "Authorize">>}
    /\ Ops(t) = <<>> <=> pc[t] \in {"idle", "describe"}
    /\ pc[t] \in {"idle", "describe", "revoke", "authorizeReplace", "authorizeAdd", "done"}
    /\ pc[t] = "done" <=> err[t] # ""
    /\ pc[t] = "revoke" => Ops(t) = <<"Describe">>
    /\ pc[t] = "authorizeReplace" => Ops(t) = <<"Describe", "Revoke">>
    /\ pc[t] = "authorizeAdd" => Ops(t) = <<"Describe">>

\* C15 (call ordering and call bound): at every moment the calls of every run
\* are one describe first, then at most one revoke, then at most one
\* authorize, in that order, for every group state, every answer of the remote
\* and every change by another actor; and every run that was entered returns,
\* with success or an error, after these at most three calls.
C15_CallOrder ==
    /\ [](\A t \in Runs : CallsInOrder(t))
    /\ \A t \in {1} :
          (pc[t] = "describe") ~> (pc[t] = "done" /\ err[t] # "" /\ Len(calls[t]) \in 1..3)

\* A run returned after its three calls, the group changed by another actor
\* between them.
C15_Witness ==
    /\ pc[1] = "done"
    /\ others = 1
    /\ Ops(1) = <<"Describe", "Revoke", "Authorize">>
    /\ calls[1][2].code = "InvalidPermission.NotFound"
    /\ err[1] = "failed to authorize new security group rule"

\* The describe of run t failed: the remote answered with an error, or with
\* no group.
DescribeFailed(t) ==
    /\ calls[t] # <<>>
    /\ calls[t][1].code # "" \/ ~Fetched(t)

\* C16 (a fetch failure is free of side effects): a run whose describe was
\* answered InvalidGroup.NotFound, another error, or an empty list of groups
\* has returned the error of that case, its describe is its only call, and it
\* has marked nothing; and the step of the failed describe leaves the remote
\* groups as they were.
C16_FetchFailure ==
    /\ [](\A t \in Runs :
            DescribeFailed(t)
            => /\ pc[t] = "done"
               /\ Ops(t) = <<"Describe">>
               /\ Mutations(t) = <<>>
               /\ ruleToRevoke[t] = <<>>
               /\ err[t] = (IF calls[t][1].code = "InvalidGroup.NotFound"
                            THEN "security group not found during rule sync"
                            ELSE IF calls[t][1].code = ""
                            THEN "security group description returned empty list"
                            ELSE "failed to describe security group"))
    /\ [][\A t \in Runs :
            (pc[t] = "describe" /\ pc'[t] # "describe" /\ theGroup'[t] = <<>>)
            => (sg' = sg /\ pc'[t] = "done" /\ err'[t] \notin {"", "nil"})]_vars

\* The describe of the first run failed on a request error against a group
\* that holds a stale entry; the second run found the group as it was and
\* replaced the entry.
C16_Witness ==
    /\ calls[1] = <<Call("Describe", <<>>, "RequestError")>>
    /\ err[1] = "failed to describe security group"
    /\ pc[2] = "done" /\ others = 0
    /\ Ops(2) = <<"Describe", "Revoke", "Authorize">>
    /\ Len(StaleEntries(theGroup[2][1], Target, description)) = 1

\* C17 (non-benign errors of the mutations are fatal for the run): a revoke
\* answered with an error other than InvalidPermission.NotFound is the last
\* call of its run, which has returned the revoke's error and issued no
\* authorize; an authorize answered with an error other than
\* InvalidPermission.Duplicate is the last call of its run, which has returned
\* the authorize's error; neither run returned success.
C17_NonBenignFatal ==
    \A t \in Runs : \A i \in 1..Len(calls[t]) :
        /\ ( /\ calls[t][i].op = "Revoke"
             /\ calls[t][i].code \notin {"", "InvalidPermission.NotFound"} )
           => /\ i = Len(calls[t])
              /\ \A j \in 1..Len(calls[t]) : calls[t][j].op # "Authorize"
              /\ pc[t] = "done"
              /\ err[t] = "failed to revoke old security group rule"
        /\ ( /\ calls[t][i].op = "Authorize"
             /\ calls[t][i].code \notin {"", "InvalidPermission.Duplicate"} )
           => /\ i = Len(calls[t])
              /\ pc[t] = "done"
              /\ err[t] = "failed to authorize new security group rule"

\* The revoke of the first run failed on a request error, and so did, after
\* its revoke, the authorize of the second: both returned their error, the
\* first without an authorize.
C17_Witness ==
    /\ Ops(1) = <<"Describe", "Revoke">>
    /\ calls[1][2].code = "RequestError"
    /\ err[1] = "failed to revoke old security group rule"
    /\ Ops(2) = <<"Describe", "Revoke", "Authorize">>
    /\ calls[2][2].code = "" /\ calls[2][3].code = "RequestError"
    /\ err[2] = "failed to authorize new security group rule"

\* Run t is the last run entered so far.
LastEntered(t) == \A j \in Runs : j > t => pc[j] = "idle"

\* An authorize of run t was answered InvalidPermission.Duplicate.
AnsweredDuplicate(t) ==
    \E i \in 1..Len(calls[t]) :
        calls[t][i].op = "Authorize" /\ calls[t][i].code = "InvalidPermission.Duplicate"

\* C18, as claimed (success postcondition): when a run has returned success
\* and no other actor changed the group, the group holds, in a tcp 0-65535
\* rule, the entry with the CIDR targetCidr and the managed description, on
\* every path to success, that of an authorize answered
\* InvalidPermission.Duplicate included.
C18_SuccessPostcondition ==
    \A t \in Runs :
        (pc[t] = "done" /\ err[t] = "nil" /\ others = 0 /\ LastEntered(t))
        => HasEntry(sg[sgID[t]].IpPermissions, Target, description)

\* C18, what main.go does: the postcondition holds on the paths to success
\* where no authorize was answered InvalidPermission.Duplicate; on those where
\* one was, the group holds targetCidr in the tcp 0-65535 rule, under the
\* managed description or under another.
C18_SuccessUnlessDuplicate ==
    \A t \in Runs :
        (pc[t] = "done" /\ err[t] = "nil" /\ others = 0 /\ LastEntered(t))
        => IF AnsweredDuplicate(t)
           THEN Target \in CidrsOf(ManagedEntries(sg[sgID[t]].IpPermissions))
           ELSE HasEntry(sg[sgID[t]].IpPermissions, Target, description)

\* The group held targetCidr under another owner's description and nothing
\* under the managed one: the run's authorize was answered
\* InvalidPermission.Duplicate, the run returned success, and the group holds
\* no entry of the managed description; the run after it did the same.
C18_Witness ==
    /\ others = 0
    /\ theGroup[1] = <<<<IpPermission("tcp", 0, 65535, <<IpRange(Target, "office")>>)>>>>
    /\ Ops(1) = <<"Describe", "Authorize">>
    /\ calls[1][2] = Call("Authorize", <<AuthInput(Target, "home")>>, "InvalidPermission.Duplicate")
    /\ err[1] = "nil"
    /\ pc[2] = "done" /\ err[2] = "nil"
    /\ calls[2] = calls[1]
    /\ EntriesOf(sg["sg-1"].IpPermissions, "home") = <<>>
    /\ sg["sg-1"].IpPermissions = theGroup[1][1]

\* The group holds the target CIDR in a tcp 0-65535 rule under no description
\* but the managed one.
NoForeignTarget ==
    \A g \in DOMAIN sg :
        \A i \in 1..Len(ManagedEntries(sg[g].IpPermissions)) :
            ManagedEntries(sg[g].IpPermissions)[i].CidrIp = Target
            => ManagedEntries(sg[g].IpPermissions)[i].Description = description

C19_ForeignTarget ==
    /\ ~NoForeignTarget
    /\ pc[1] = "done" /\ pc[2] = "done"
    /\ err[1] = "nil" /\ err[2] = "nil"
    /\ EntriesOf(sg["sg-1"].IpPermissions, description) = <<>>

====
